---- MODULE Spec2Model ----
(***************************************************************************)
(* Model of the dealership inventory tracker:                              *)
(*   ga4_client.py  GA4Client.get_underexposed_pages (pagination, filters, *)
(*                  threshold, recency sort, truncation)                   *)
(*   main.py        main (fetch phase, scrape loop, export)                *)
(*   scraper.py     _is_valid_vin, InventoryScraper._append_utm,           *)
(*                  _fetch_html (retry with backoff), the extractors and   *)
(*                  scrape_page                                            *)
(*                                                                         *)
(* A page path is a sequence of tokens.  The token INV stands for the      *)
(* literal text "/inventory/"; every other token is one character.         *)
(* A raw report row is [dimension_values, metric_values], both sequences   *)
(* of strings, as in the RunReport response.                               *)
(* A text the scraper handles character by character (an identifier        *)
(* candidate, a captured group) is a sequence of one-character strings; a  *)
(* URL is a sequence of tokens, with "?", "&", "=" and "#" as tokens of     *)
(* their own.                                                              *)
(***************************************************************************)
EXTENDS Integers, Sequences, FiniteSets, TLC

VARIABLES
    \* ---- configuration (immutable after construction) ----
    cfg,                \* GA4Client.__init__: threshold, max_results, patterns
    \* ---- the analytics server (environment) ----
    server,             \* rows it holds, and how many it serves in a session
    \* ---- GA4Client.get_underexposed_pages locals ----
    pc,                 \* position of main / get_underexposed_pages
    offset,             \* offset
    underexposed,       \* underexposed
    total_seen,         \* total_seen
    filtered_count,     \* filtered_count
    total_available,    \* total_available of the last response
    \* ---- history of the analytics session (not program state) ----
    received,           \* every raw row received, in order
    requests,           \* number of _fetch_batch calls issued
    fullBatches,        \* every batch the loop continued after was full
    totalsMonotone,     \* the reported total never decreased
    batchFailed,        \* a _fetch_batch call raised
    \* ---- main ----
    underexposed_pages, \* main: underexposed_pages, <<list>> once assigned
    scrape_results,     \* main: scrape_results
    delays,             \* number of time.sleep(delay) calls of the loop
    csv,                \* <<records>> once write_csv has written the file
    exit_code,          \* sys.exit status, -1 while running
    \* ---- InventoryScraper._fetch_html ----
    max_retries,        \* self._max_retries
    fpc,                \* position of _fetch_html
    attempt,            \* attempt
    last_exc,           \* last_exc
    outcomes,           \* history: outcome of each session.get, in order
    waits,              \* history: argument of each time.sleep, in order
    utm,                \* self._utm_source, self._utm_medium
    url,                \* url
    fetch_url,          \* fetch_url
    \* ---- InventoryScraper.scrape_page ----
    spc,                \* position of scrape_page
    html,               \* the document the server holds for url
    result,             \* result, <<ScrapeResult>> once constructed
    consulted,          \* history: the extractors called, in order
    \* ---- _is_valid_vin ----
    value,              \* value
    valid               \* <<return value>> once it has returned

vars == <<cfg, server, pc, offset, underexposed, total_seen, filtered_count,
          total_available, received, requests, fullBatches,
          totalsMonotone, batchFailed, underexposed_pages, scrape_results,
          delays, csv, exit_code, max_retries, fpc, attempt, last_exc,
          outcomes, waits, utm, url, fetch_url, spc, html, result,
          consulted, value, valid>>

ga4Vars == <<offset, underexposed, total_seen, filtered_count,
             total_available, received, requests, fullBatches,
             totalsMonotone, batchFailed>>

mainVars == <<underexposed_pages, scrape_results, delays, csv, exit_code>>

fetchVars == <<max_retries, fpc, attempt, last_exc, outcomes, waits, utm, url,
               fetch_url>>

scrapeVars == <<spc, html, result, consulted>>

vinVars == <<value, valid>>

----------------------------------------------------------------------------
\* Bounds of the model.

\* Rows per batch request.  The program asks for _PAGE_SIZE = 10000 rows
\* (ga4_client.py:32, :158); the model pages with this many.
PageSize == 2

\* Most rows a server with the full row pool serves in one session.
MaxRows == 2

\* Largest row total (response.row_count) the analytics server reports.
MaxTotal == 3

\* Largest configured max_retries.
MaxRetries == 3

\* Most structured-data blocks in a document.
MaxBlocks == 2

----------------------------------------------------------------------------
\* Generic helpers.

Min(a, b) == IF a < b THEN a ELSE b

\* Python s[:n] for n >= 0.
Take(s, n) == SubSeq(s, 1, Min(n, Len(s)))

RECURSIVE Pow2(_)
Pow2(k) == IF k <= 0 THEN 1 ELSE 2 * Pow2(k - 1)

Digits == {"0", "1", "2", "3", "4", "5", "6", "7", "8", "9"}

DigitVal == ("0" :> 0) @@ ("1" :> 1) @@ ("2" :> 2) @@ ("3" :> 3) @@ ("4" :> 4)
            @@ ("5" :> 5) @@ ("6" :> 6) @@ ("7" :> 7) @@ ("8" :> 8) @@ ("9" :> 9)

\* p occurs in s starting at position i.
OccursAt(p, s, i) ==
    /\ i >= 1
    /\ i + Len(p) - 1 <= Len(s)
    /\ \A k \in 1..Len(p) : s[i + k - 1] = p[k]

\* re.Pattern.match of a literal pattern: anchored at the start.
ReMatch(p, s) == OccursAt(p, s, 1)

\* re.Pattern.search of a literal pattern: anywhere.
ReSearch(p, s) == \E i \in 1..Len(s) + 1 : OccursAt(p, s, i)

----------------------------------------------------------------------------
\* scraper.py: texts, and the structural validator _is_valid_vin.

UpperLetters == <<"A", "B", "C", "D", "E", "F", "G", "H", "I", "J", "K", "L", "M",
                  "N", "O", "P", "Q", "R", "S", "T", "U", "V", "W", "X", "Y", "Z">>

LowerLetters == <<"a", "b", "c", "d", "e", "f", "g", "h", "i", "j", "k", "l", "m",
                  "n", "o", "p", "q", "r", "s", "t", "u", "v", "w", "x", "y", "z">>

\* Two characters outside ASCII that Python's case mappings tie to ASCII
\* letters: LATIN SMALL LETTER LONG S (upper() gives "S") and KELVIN SIGN
\* (lower() gives "k").  Each stands for one character.
LongS == "U+017F"

KelvinSign == "U+212A"

\* Characters str.strip() removes (those of the model).
Whitespace == {" ", "\t", "\n"}

\* str.upper() on one character.
UpperChar(c) ==
    IF \E i \in 1..26 : LowerLetters[i] = c
    THEN UpperLetters[CHOOSE i \in 1..26 : LowerLetters[i] = c]
    ELSE IF c = LongS THEN "S" ELSE c

\* str.lower() on one character.
LowerChar(c) ==
    IF \E i \in 1..26 : UpperLetters[i] = c
    THEN LowerLetters[CHOOSE i \in 1..26 : UpperLetters[i] = c]
    ELSE IF c = KelvinSign THEN "k" ELSE c

\* str.upper()
Upper(s) == [i \in DOMAIN s |-> UpperChar(s[i])]

\* str.strip()
Strip(s) ==
    LET keep == {i \in DOMAIN s : s[i] \notin Whitespace}
    IN  IF keep = {} THEN <<>>
        ELSE SubSeq(s, CHOOSE i \in keep : \A j \in keep : i <= j,
                       CHOOSE i \in keep : \A j \in keep : i >= j)

\* The characters that are c up to case, as re.IGNORECASE sees them on str
\* patterns.
CaseVariants(c) ==
    {c, UpperChar(c), LowerChar(c), UpperChar(LowerChar(c)), LowerChar(UpperChar(c))}

\* The class [A-HJ-NPR-Z0-9] as written.
VinClass == ({UpperLetters[i] : i \in 1..26} \ {"I", "O", "Q"}) \cup Digits

\* One character against the class under re.IGNORECASE.
VinClassMatches(c) == CaseVariants(c) \cap VinClass # {}

\* The {17} of _VIN_RE.
VinLength == 17

\* _VIN_RE.match(t) for ^[A-HJ-NPR-Z0-9]{17}$: "$" also matches just before
\* a newline that ends the text.
VinReMatch(t) ==
    LET body == IF Len(t) = VinLength + 1 /\ t[Len(t)] = "\n"
                THEN SubSeq(t, 1, VinLength) ELSE t
    IN  /\ Len(body) = VinLength
        /\ \A i \in 1..Len(body) : VinClassMatches(body[i])

\* _is_valid_vin
IsValidVin(v) == VinReMatch(Strip(v))

\* Candidate identifiers: sixteen characters of a vehicle id in either case,
\* then nothing, one more character, or two, with or without whitespace
\* around.
Base16 == <<"1", "F", "T", "F", "W", "1", "E", "T", "1", "E", "K", "D", "1", "2", "3", "4">>

LowerBase16 == <<"1", "f", "t", "f", "w", "1", "e", "t", "1", "e", "k", "d", "1", "2", "3", "4">>

TailChars == {"5", "s", "S", "i", "I", "o", "O", "q", "Q", "-", " ", LongS, KelvinSign}

VinTails == {<<>>} \cup {<<c>> : c \in TailChars} \cup {<<c, "5">> : c \in TailChars}

VinInputs ==
    {lead \o base \o tail \o trail :
        lead \in {<<>>, <<" ">>}, base \in {Base16, LowerBase16},
        tail \in VinTails, trail \in {<<>>, <<"\n">>}}

----------------------------------------------------------------------------
\* ga4_client.py

INV == "/inventory/"

\* _SLUG_YEAR_RE = /inventory/(\d{4})-   positions where it matches.
SlugYearHits(page_path) ==
    {i \in 1..Len(page_path) :
        /\ i + 5 <= Len(page_path)
        /\ page_path[i] = INV
        /\ \A k \in 1..4 : page_path[i + k] \in Digits
        /\ page_path[i + 5] = "-"}

\* _slug_year: int(group(1)) of the leftmost match, 0 without a match.
SlugYear(page_path) ==
    LET hits == SlugYearHits(page_path)
    IN  IF hits = {} THEN 0
        ELSE LET i == CHOOSE h \in hits : \A g \in hits : h <= g
             IN  1000 * DigitVal[page_path[i + 1]] + 100 * DigitVal[page_path[i + 2]]
                 + 10 * DigitVal[page_path[i + 3]] + DigitVal[page_path[i + 4]]

\* int(text) of a metric value: defined on non-empty digit strings only
\* (metric values of the model are one character long).
IsIntText(text) == text \in Digits

IntOf(text) == DigitVal[text]

\* The try block of the row loop: IndexError when a value list is empty,
\* ValueError when the metric is not a number.
RowDecodes(row) ==
    /\ Len(row.dimension_values) >= 1
    /\ Len(row.metric_values) >= 1
    /\ IsIntText(row.metric_values[1])

Decode(row) ==
    [page_path |-> row.dimension_values[1],
     page_views |-> IntOf(row.metric_values[1])]

\* Variant: the inclusion pattern is searched for, not matched at the start.
InclusionDrops_Search(c, page_path) ==
    c.page_path_pattern # <<>> /\ ~ReSearch(c.page_path_pattern, page_path)

\* self._page_path_re and not self._page_path_re.match(page_path)
\* (an empty configured pattern compiles to None).
InclusionDrops(c, page_path) ==
    c.page_path_pattern # <<>> /\ ~ReMatch(c.page_path_pattern, page_path)

\* self._page_path_exclude_re and self._page_path_exclude_re.search(page_path)
ExclusionDrops(c, page_path) ==
    c.page_path_exclude_pattern # <<>>
    /\ ReSearch(c.page_path_exclude_pattern, page_path)

\* Variant: the comparison admits the threshold itself.
BelowThreshold_AtMost(c, page_views) == page_views <= c.pageview_threshold

\* page_views < self._threshold
BelowThreshold(c, page_views) == page_views < c.pageview_threshold

\* Variant: a row that does not decode ends the pass over its batch.
RECURSIVE ProcessRows_StopAtMalformed(_, _, _)
ProcessRows_StopAtMalformed(c, rows, st) ==
    IF rows = <<>> THEN st
    ELSE LET row == Head(rows)
             rest == Tail(rows)
         IN  IF ~RowDecodes(row)
             THEN st
             ELSE LET r == Decode(row)
                      seen == [st EXCEPT !.total_seen = @ + 1]
                  IN  IF InclusionDrops(c, r.page_path)
                         \/ ExclusionDrops(c, r.page_path)
                      THEN ProcessRows_StopAtMalformed(c, rest,
                               [seen EXCEPT !.filtered_count = @ + 1])
                      ELSE IF BelowThreshold(c, r.page_views)
                      THEN ProcessRows_StopAtMalformed(c, rest,
                               [seen EXCEPT !.underexposed = Append(@, r)])
                      ELSE ProcessRows_StopAtMalformed(c, rest, seen)

\* One pass of "for row in response.rows" over a whole batch: the locals
\* after the batch, from the locals before it.
RECURSIVE ProcessRows(_, _, _)
ProcessRows(c, rows, st) ==
    IF rows = <<>> THEN st
    ELSE LET row == Head(rows)
             rest == Tail(rows)
         IN  IF ~RowDecodes(row)
             THEN ProcessRows(c, rest, st)
             ELSE LET r == Decode(row)
                      seen == [st EXCEPT !.total_seen = @ + 1]
                  IN  IF InclusionDrops(c, r.page_path)
                         \/ ExclusionDrops(c, r.page_path)
                      THEN ProcessRows(c, rest,
                               [seen EXCEPT !.filtered_count = @ + 1])
                      ELSE IF BelowThreshold(c, r.page_views)
                      THEN ProcessRows(c, rest,
                               [seen EXCEPT !.underexposed = Append(@, r)])
                      ELSE ProcessRows(c, rest, seen)

\* list.sort(key=_slug_year, reverse=True): stable, descending by year.
RECURSIVE InsertByYear(_, _)
InsertByYear(r, sorted) ==
    IF sorted = <<>> THEN <<r>>
    ELSE IF SlugYear(Head(sorted).page_path) >= SlugYear(r.page_path)
         THEN <<Head(sorted)>> \o InsertByYear(r, Tail(sorted))
         ELSE <<r>> \o sorted

\* Variant: the sort without reverse=True (oldest year first).
RECURSIVE InsertByYear_Ascending(_, _)
InsertByYear_Ascending(r, sorted) ==
    IF sorted = <<>> THEN <<r>>
    ELSE IF SlugYear(Head(sorted).page_path) <= SlugYear(r.page_path)
         THEN <<Head(sorted)>> \o InsertByYear_Ascending(r, Tail(sorted))
         ELSE <<r>> \o sorted

RECURSIVE SortByYear_Ascending(_)
SortByYear_Ascending(s) ==
    IF s = <<>> THEN <<>>
    ELSE InsertByYear_Ascending(s[Len(s)],
             SortByYear_Ascending(SubSeq(s, 1, Len(s) - 1)))

RECURSIVE SortByYear(_)
SortByYear(s) ==
    IF s = <<>> THEN <<>>
    ELSE InsertByYear(s[Len(s)], SortByYear(SubSeq(s, 1, Len(s) - 1)))

\* if len(underexposed) > self._max_results: underexposed[: self._max_results]
Truncate(c, s) == IF Len(s) > c.max_results THEN Take(s, c.max_results) ELSE s

\* Variant: the list is truncated before it is sorted.
RankAndCap_TruncateFirst(c, s) == SortByYear(Truncate(c, s))

\* Lines 233-255: sort, then truncate; the value returned.
RankAndCap(c, s) == Truncate(c, SortByYear(s))

----------------------------------------------------------------------------
\* Inputs of the model.

None == "<None>"

\* An optional value that is not atomic (a list, a text, a record): <<>> is
\* None or not yet bound, <<x>> is x.
Unset == <<>>

Assigned(x) == <<x>>

P2024 == <<INV, "2", "0", "2", "4", "-", "x">>

P2020 == <<INV, "2", "0", "2", "0", "-", "x">>

\* No year token, and the inventory marker is not at the start of the path.
POutside == <<"x", INV, "x">>

PSold == <<INV, "2", "0", "2", "0", "-", "s">>

ReportRow(page_path, views) ==
    [dimension_values |-> <<page_path>>, metric_values |-> <<views>>]

\* A row without dimension values (IndexError at dimension_values[0]).
RowNoDimension == [dimension_values |-> <<>>, metric_values |-> <<"0">>]

\* A row whose metric is not a number (ValueError at int(...)).
RowBadMetric == ReportRow(P2024, "x")

\* Raw rows the analytics server may return.
RowPool ==
    {ReportRow(P2024, "1"), ReportRow(P2020, "0"), ReportRow(POutside, "0"),
     ReportRow(PSold, "0"), RowNoDimension, RowBadMetric}

\* response.rows of one RunReport call: at most the requested limit.
Batches == UNION {[1..n -> RowPool] : n \in 0..PageSize}

Thresholds == {1, 2}

Caps == {1, 2}

InclusionPatterns == {<<>>, <<INV>>}

ExclusionPatterns == {<<>>, <<"s">>}

Domains == {"dealer.example"}

Configs ==
    [pageview_threshold : Thresholds,
     max_results : Caps,
     page_path_pattern : InclusionPatterns,
     page_path_exclude_pattern : ExclusionPatterns,
     domain : Domains]

----------------------------------------------------------------------------
\* main.py, step 1: GA4Client(config) and get_underexposed_pages().

GA4LocalsInit ==
    /\ offset = 0
    /\ underexposed = <<>>
    /\ total_seen = 0
    /\ filtered_count = 0
    /\ total_available = 0
    /\ received = <<>>
    /\ requests = 0
    /\ fullBatches = TRUE
    /\ totalsMonotone = TRUE
    /\ batchFailed = FALSE

MainInit ==
    /\ underexposed_pages = Unset
    /\ scrape_results = <<>>
    /\ delays = 0
    /\ csv = Unset
    /\ exit_code = -1

FetchIdle ==
    /\ max_retries = 0
    /\ fpc = "idle"
    /\ attempt = 0
    /\ last_exc = None
    /\ outcomes = <<>>
    /\ waits = <<>>
    /\ utm = [utm_source |-> "", utm_medium |-> ""]
    /\ url = <<>>
    /\ fetch_url = <<>>

ScrapeIdle ==
    /\ spc = "idle"
    /\ html = Unset
    /\ result = Unset
    /\ consulted = <<>>

VinIdle ==
    /\ value = <<>>
    /\ valid = Unset

\* The pipeline after load_config, about to construct the GA4 client.
Init ==
    /\ cfg \in Configs
    /\ server = [rows |-> RowPool, served |-> MaxRows]
    /\ pc = "build"
    /\ GA4LocalsInit
    /\ MainInit
    /\ FetchIdle
    /\ ScrapeIdle
    /\ VinIdle

\* GA4Client.__init__ / _build_client succeed; get_underexposed_pages starts.
BuildClient ==
    /\ pc = "build"
    /\ pc' = "fetch"
    /\ UNCHANGED <<cfg, server, ga4Vars, mainVars, fetchVars, scrapeVars, vinVars>>

\* _build_client raises (key file missing, bad credentials); main exits 1.
BuildClientFail ==
    /\ pc = "build"
    /\ pc' = "exit"
    /\ exit_code' = 1
    /\ UNCHANGED <<cfg, server, ga4Vars, underexposed_pages, scrape_results, delays,
                   csv, fetchVars, scrapeVars, vinVars>>

\* Variant: the empty-batch test is missing.
LoopEnds_NoEmptyTest(batch_size, newOffset, total) == newOffset >= total

\* "if batch_size == 0: break" and, after "offset += batch_size",
\* "if offset >= total_available: break".
LoopEnds(batch_size, newOffset, total) ==
    batch_size = 0 \/ newOffset >= total

\* Variant: the offset advances by the size asked for.
NextOffset_ByPageSize(off, batch_size) == off + PageSize

\* Line 229: "offset += batch_size".
NextOffset(off, batch_size) == off + batch_size

\* One iteration of "while True": the request returns rows and a total.
\* When the loop ends (lines 201-202, 230-231) the code runs on through the
\* sort and the truncation to the return.
FetchBatch(rows, total) ==
    LET st == ProcessRows(cfg, rows,
                  [underexposed |-> underexposed, total_seen |-> total_seen,
                   filtered_count |-> filtered_count])
        batch_size == Len(rows)
        newOffset == NextOffset(offset, batch_size)
        ends == LoopEnds(batch_size, newOffset, total)
    IN  /\ pc = "fetch"
        /\ \A k \in 1..batch_size : rows[k] \in server.rows
        /\ Len(received) + batch_size <= server.served
        \* row_count counts the rows of the whole result, those of this
        \* batch included
        /\ batch_size > 0 => total >= newOffset
        /\ total_available' = total
        /\ offset' = newOffset
        /\ total_seen' = st.total_seen
        /\ filtered_count' = st.filtered_count
        /\ underexposed' = IF ends THEN RankAndCap(cfg, st.underexposed)
                           ELSE st.underexposed
        /\ pc' = IF ends THEN "returned" ELSE "fetch"
        /\ received' = received \o rows
        /\ requests' = requests + 1
        /\ fullBatches' = (fullBatches /\ (ends \/ batch_size = PageSize))
        /\ totalsMonotone' =
               (totalsMonotone /\ (requests = 0 \/ total >= total_available))
        /\ UNCHANGED <<cfg, server, batchFailed, mainVars, fetchVars, scrapeVars, vinVars>>

\* Variant: the failed request ends the loop and the rows retained so far
\* are ranked and returned.
FetchBatchFails_ReturnsPartial ==
    /\ pc = "fetch"
    /\ requests' = requests + 1
    /\ batchFailed' = TRUE
    /\ underexposed' = RankAndCap(cfg, underexposed)
    /\ pc' = "returned"
    /\ UNCHANGED <<cfg, server, offset, total_seen, filtered_count,
                   total_available, received, fullBatches, totalsMonotone,
                   mainVars, fetchVars, scrapeVars, vinVars>>

\* _fetch_batch raises: nothing in get_underexposed_pages catches it, main's
\* "except Exception" logs and calls sys.exit(1).
FetchBatchFails ==
    /\ pc = "fetch"
    /\ requests' = requests + 1
    /\ batchFailed' = TRUE
    /\ pc' = "exit"
    /\ exit_code' = 1
    /\ UNCHANGED <<cfg, server, offset, underexposed, total_seen, filtered_count,
                   total_available, received, fullBatches,
                   totalsMonotone, underexposed_pages, scrape_results, delays,
                   csv, fetchVars, scrapeVars, vinVars>>

----------------------------------------------------------------------------
\* scraper.py: the parsed document and the extractors.
\*
\* A document is [blocks, tree, section, page]: the <script type=
\* "application/ld+json"> tags in document order, the tags of the page, the
\* text of the "vehicle identification" section (absent when
\* _find_vehicle_id_section returns None) and the visible text of the whole
\* page.  A JSON value is a record tagged with its Python type.  A text is
\* known by what the configured patterns find in it: the leftmost match of
\* vin_text_pattern and of each stock pattern, absent without a match.  A
\* match is <<group, start>>: group(1), absent when the group took no part
\* in the match, and the place in the page's text where the match starts.

JNull == [t |-> "null"]

JNum == [t |-> "num"]

JStr(chars) == [t |-> "str", s |-> chars]

JList(items) == [t |-> "list", items |-> items]

\* A JSON object, its members in order as <<key, value>> pairs.
JDict(members) == [t |-> "dict", members |-> members]

\* dict.get(key): the value, None for a missing key (JSON null is None too).
JGet(obj, key) ==
    IF \E i \in DOMAIN obj.members : obj.members[i][1] = key
    THEN obj.members[CHOOSE i \in DOMAIN obj.members : obj.members[i][1] = key][2]
    ELSE JNull

\* config jsonld_vin_fields, in order.
JsonldVinFields == <<"vehicleIdentificationNumber", "vin", "serialNumber">>

\* Variant: a non-empty string value is returned without the validator.
FieldYields_Unvalidated(raw_value) == raw_value.t = "str" /\ raw_value.s # <<>>

\* Lines 198-200: a non-empty string whose trimmed value is a valid id.
FieldYields(raw_value) ==
    /\ raw_value.t = "str"
    /\ raw_value.s # <<>>
    /\ IsValidVin(Strip(raw_value.s))

\* Variant: only the first configured field is probed.
ProbeFields_FirstField(obj, fields) ==
    IF fields = <<>> \/ ~FieldYields(JGet(obj, Head(fields))) THEN Unset
    ELSE Assigned(Upper(Strip(JGet(obj, Head(fields)).s)))

\* Lines 196-206: the fields of one candidate object, in configured order.
RECURSIVE ProbeFields(_, _)
ProbeFields(obj, fields) ==
    IF fields = <<>> THEN Unset
    ELSE LET raw_value == JGet(obj, Head(fields))
         IN  IF FieldYields(raw_value)
             THEN Assigned(Upper(Strip(raw_value.s)))
             ELSE ProbeFields(obj, Tail(fields))

\* Lines 193-206: the candidates in order, those that are no dict skipped.
RECURSIVE ScanCandidates(_)
ScanCandidates(candidates) ==
    IF candidates = <<>> THEN Unset
    ELSE LET obj == Head(candidates)
             found == IF obj.t = "dict" THEN ProbeFields(obj, JsonldVinFields)
                      ELSE Unset
         IN  IF found # Unset THEN found ELSE ScanCandidates(Tail(candidates))

\* "@graph" is a member of the object.
HasGraph(data) == \E i \in DOMAIN data.members : data.members[i][1] = "@graph"

\* Lines 185-191: [skip, raised, candidates] of one decoded block.  A dict
\* gives its "@graph" value when it has one, else itself; "for obj in" a
\* list walks its items, in a dict or a string it meets only strings (no
\* candidate), and on None or a number it raises TypeError.
Candidates(data) ==
    LET none == [skip |-> TRUE, raised |-> FALSE, candidates |-> <<>>]
        of(g) == CASE g.t = "list" -> [none EXCEPT !.skip = FALSE, !.candidates = g.items]
                   [] g.t \in {"dict", "str"} -> [none EXCEPT !.skip = FALSE]
                   [] OTHER -> [none EXCEPT !.skip = FALSE, !.raised = TRUE]
    IN  CASE data.t = "dict" ->
                 IF HasGraph(data) THEN of(JGet(data, "@graph"))
                 ELSE [none EXCEPT !.skip = FALSE, !.candidates = <<data>>]
          [] data.t = "list" -> of(data)
          [] OTHER -> none

\* _extract_vin_from_jsonld: [raised, vin].  A block without a string and a
\* block json.loads rejects are skipped.
RECURSIVE ExtractVinFromJsonld(_)
ExtractVinFromJsonld(blocks) ==
    IF blocks = <<>> THEN [raised |-> FALSE, vin |-> Unset]
    ELSE LET block == Head(blocks)
             c == Candidates(block.data)
             found == ScanCandidates(c.candidates)
         IN  IF block.kind # "json" \/ c.skip
             THEN ExtractVinFromJsonld(Tail(blocks))
             ELSE IF c.raised THEN [raised |-> TRUE, vin |-> Unset]
             ELSE IF found # Unset THEN [raised |-> FALSE, vin |-> found]
             ELSE ExtractVinFromJsonld(Tail(blocks))

\* pattern.search: the match that starts first in the text among those of ms.
Leftmost(ms) ==
    IF ms \subseteq {Unset} THEN Unset
    ELSE CHOOSE m \in ms : m # Unset /\ \A o \in ms : o = Unset \/ m[2] <= o[2]

\* The tags of a page, in document order: tag i is [name, parent, phrase,
\* text], parent the place of its parent tag (0: the BeautifulSoup object
\* itself), phrase whether its own strings hold "vehicle identification" in
\* any case, text what the patterns find in its own strings.

\* The tags whose strings get_text() of tag n joins: n and those below it.
\* Path(i) is tag i and the tags it lies in, up to the soup object.
Subtree(tree, n) ==
    LET RECURSIVE Path(_)
        Path(i) == IF i = 0 THEN {0} ELSE {i} \cup Path(tree[i].parent)
    IN  {i \in DOMAIN tree : n \in Path(i)}

\* _find_vehicle_id_section: soup.find gives the first tag, in document
\* order, of one of the nine names whose text, that of the tags below it
\* included, holds the phrase; the section is the parent of its parent, or
\* its parent when that one has no parent.
FindVehicleIdSection(tree) ==
    LET names == {"h1", "h2", "h3", "h4", "h5", "th", "td", "div", "span"}
        found == {i \in DOMAIN tree :
                     /\ tree[i].name \in names
                     /\ \E k \in Subtree(tree, i) : tree[k].phrase}
        heading == CHOOSE i \in found : \A k \in found : i <= k
        container == tree[heading].parent
    IN  IF found = {} THEN Unset
        ELSE Assigned(IF container # 0 THEN tree[container].parent
                      ELSE container)

\* Variant: the text of the whole page, whatever the tag.
GetText_WholePage(tree, n) ==
    [vin |-> Leftmost({tree[i].text.vin : i \in DOMAIN tree}),
     stock |-> <<Leftmost({tree[i].text.stock[1] : i \in DOMAIN tree}),
                 Leftmost({tree[i].text.stock[2] : i \in DOMAIN tree})>>]

\* tag.get_text(" ", strip=True), as the patterns see it: pattern.search
\* gives the leftmost match in the strings of the tag and of those below it.
GetText(tree, n) ==
    [vin |-> Leftmost({tree[i].text.vin : i \in Subtree(tree, n)}),
     stock |-> <<Leftmost({tree[i].text.stock[1] : i \in Subtree(tree, n)}),
                 Leftmost({tree[i].text.stock[2] : i \in Subtree(tree, n)})>>]

\* Lines 223-228 and 253-258: [tree, section, page], the two texts the
\* extractors choose from, the section sought once.
SoupTexts(tree) ==
    LET texts(section) ==
            [tree |-> tree,
             section |-> IF section = Unset THEN Unset
                         ELSE Assigned(GetText(tree, section[1])),
             page |-> GetText(tree, 0)]
    IN  CHOOSE t \in {texts(s) : s \in {FindVehicleIdSection(tree)}} : TRUE

\* Lines 223-228: the section's text when there is a section, else the page's.
SearchText(doc) == IF doc.section # Unset THEN doc.section[1] ELSE doc.page

\* _extract_vin_from_text: [raised, vin]; group(1) of the match, trimmed,
\* when valid.  match.group(1) is None when the group took no part, and
\* None.strip() raises AttributeError.
ExtractVinFromText(doc) ==
    LET match == SearchText(doc).vin
    IN  IF match = Unset THEN [raised |-> FALSE, vin |-> Unset]
        ELSE IF match[1] = Unset THEN [raised |-> TRUE, vin |-> Unset]
        ELSE [raised |-> FALSE,
              vin |-> IF IsValidVin(Strip(match[1][1]))
                      THEN Assigned(Upper(Strip(match[1][1])))
                      ELSE Unset]

\* Variant: the match that starts first in the text wins, whatever its pattern.
FirstStockMatch_Leftmost(matches) ==
    LET m == Leftmost({matches[k] : k \in DOMAIN matches})
    IN  IF m = Unset THEN [raised |-> FALSE, stock |-> Unset]
        ELSE IF m[1] = Unset THEN [raised |-> TRUE, stock |-> Unset]
        ELSE [raised |-> FALSE, stock |-> Assigned(Upper(Strip(m[1][1])))]

\* Lines 260-267: [raised, stock] of the first pattern, in configured order,
\* that matches; matches[k] is the match of pattern k.
RECURSIVE FirstStockMatch(_)
FirstStockMatch(matches) ==
    IF matches = <<>> THEN [raised |-> FALSE, stock |-> Unset]
    ELSE LET match == Head(matches)
         IN  IF match = Unset THEN FirstStockMatch(Tail(matches))
             ELSE IF match[1] = Unset THEN [raised |-> TRUE, stock |-> Unset]
             ELSE [raised |-> FALSE,
                   stock |-> Assigned(Upper(Strip(match[1][1])))]

ExtractStockNumber(doc) == FirstStockMatch(SearchText(doc).stock)

\* Variant: the text fallback runs whatever the structured data gave.
TextConsulted_Always(jsonld_vin) == TRUE

\* "if vin is None": the text fallback runs.
TextConsulted(jsonld_vin) == jsonld_vin = Unset

\* Variant: result.vin_number is assigned before the stock number is sought.
VinFieldAtStockFault_Assigned(vin) == vin

\* Lines 306-309: what result.vin_number holds when _extract_stock_number
\* raises; the two fields are assigned after both extractions.
VinFieldAtStockFault(vin) == Unset

\* Lines 298-314: [raised, vin, stock, calls] of the try block: whether it
\* raised, what it assigned to result.vin_number and result.stock_number,
\* and the extractors it called.
ParsePage(doc) ==
    LET fault(vin, calls) ==
            [raised |-> TRUE, vin |-> vin, stock |-> Unset, calls |-> calls]
        \* line 306 on, the id sought with outcome t
        stockStep(t, calls, s) ==
            IF s.raised THEN fault(VinFieldAtStockFault(t.vin), calls)
            ELSE [raised |-> FALSE, vin |-> t.vin, stock |-> s.stock,
                  calls |-> calls]
        \* line 303 on, the structured data sought with outcome j
        textStep(j, t) ==
            IF j.raised THEN fault(Unset, <<"jsonld">>)
            ELSE IF ~TextConsulted(j.vin)
                 THEN stockStep(j, <<"jsonld", "stock">>, ExtractStockNumber(doc))
            ELSE IF t.raised THEN fault(Unset, <<"jsonld", "text">>)
            ELSE stockStep(t, <<"jsonld", "text", "stock">>,
                           ExtractStockNumber(doc))
    IN  textStep(ExtractVinFromJsonld(doc.blocks), ExtractVinFromText(doc))

\* ScrapeResult(full_url=url): the dataclass defaults.
ScrapeResult(target) ==
    [full_url |-> target, stock_number |-> Unset, vin_number |-> Unset,
     scrape_status |-> "success", error_message |-> None]

\* Variant: a not-found page is reported as failed.
NotFoundResult_AsFailed(r) ==
    [r EXCEPT !.scrape_status = "failed", !.error_message = "404 Not Found"]

\* Lines 287-291.
NotFoundResult(r) ==
    [r EXCEPT !.scrape_status = "not_found", !.error_message = "404 Not Found"]

\* Lines 292-296.
FetchFailedResult(r) ==
    [r EXCEPT !.scrape_status = "failed", !.error_message = "All attempts failed"]

\* Variant: the parse fault is recorded without a message.
ParseFaultResult_NoMessage(r) == [r EXCEPT !.scrape_status = "failed"]

\* Lines 316-319.
ParseFaultResult(r) ==
    [r EXCEPT !.scrape_status = "failed", !.error_message = "Parse error"]

\* scrape_page once _fetch_html has ended in fetched, the server holding doc:
\* [raised, result, calls].  An exception of _fetch_html that is neither
\* PageNotFoundError nor a RequestException meets no except clause.
ScrapePage(target, fetched, doc) ==
    LET r == ScrapeResult(target)
        out(raised, res, calls) == [raised |-> raised, result |-> res, calls |-> calls]
        parseStep(parsed) ==
            LET assigned == [r EXCEPT !.vin_number = parsed.vin,
                                      !.stock_number = parsed.stock]
            IN  IF parsed.raised
                THEN out(FALSE, ParseFaultResult(assigned), parsed.calls)
                ELSE out(FALSE, assigned, parsed.calls)
    IN  CASE fetched = "not_found" -> out(FALSE, NotFoundResult(r), <<>>)
          [] fetched = "transport_error" -> out(FALSE, FetchFailedResult(r), <<>>)
          [] fetched = "raised" -> out(TRUE, r, <<>>)
          [] OTHER -> parseStep(ParsePage(doc))

\* How a call of _fetch_html ends.
FetchResults == {"returned", "not_found", "transport_error", "raised"}

\* Documents of the model.
VinA == Base16 \o <<"5">>

VinALower == LowerBase16 \o <<"5">>

VinKelvin == LowerBase16 \o <<KelvinSign>>

VinB == <<"2", "H", "G", "F", "C", "2", "F", "5", "9", "K", "H", "5", "1", "2", "3", "4", "5">>

Block(kind, data) == [kind |-> kind, data |-> data]

\* script_tag.string is None or empty.
BlockEmpty == Block("empty", JNull)

\* json.loads raises JSONDecodeError.
BlockMalformed == Block("malformed", JNull)

\* The block decodes to a number.
BlockScalar == Block("json", JNum)

BlockVinLower ==
    Block("json", JDict(<<<<"vehicleIdentificationNumber", JStr(VinALower)>>>>))

\* The first field holds a number, the second the id with whitespace around.
BlockSecondField ==
    Block("json", JDict(<<<<"vehicleIdentificationNumber", JNum>>,
                          <<"vin", JStr(<<" ">> \o VinA \o <<"\n">>)>>>>))

\* Three values that are no valid id: empty, 16 characters, with an "I".
BlockInvalid ==
    Block("json", JDict(<<<<"vehicleIdentificationNumber", JStr(<<>>)>>,
                          <<"vin", JStr(Base16)>>,
                          <<"serialNumber", JStr(Base16 \o <<"I">>)>>>>))

\* "@graph" holds a string, an object without an id and one with it; the
\* id beside "@graph" is not a candidate.
BlockGraph ==
    Block("json", JDict(<<<<"vin", JStr(VinB)>>,
                          <<"@graph", JList(<<JStr(VinB),
                                             JDict(<<<<"name", JStr(VinB)>>>>),
                                             JDict(<<<<"serialNumber", JStr(VinALower)>>>>)>>)>>>>))

\* "@graph": null
BlockGraphNull == Block("json", JDict(<<<<"@graph", JNull>>>>))

\* A top-level array; the id in it ends in a Kelvin sign.
BlockList ==
    Block("json", JList(<<JNum, JDict(<<<<"vin", JStr(VinKelvin)>>>>)>>))

BlockPool ==
    {BlockEmpty, BlockMalformed, BlockScalar, BlockVinLower, BlockSecondField,
     BlockInvalid, BlockGraph, BlockGraphNull, BlockList}

BlockSeqs == UNION {[1..k -> BlockPool] : k \in 0..MaxBlocks}

\* The strings of a tag in which neither pattern matches.
TextNone == [vin |-> Unset, stock |-> <<Unset, Unset>>]

\* The id pattern captures VinB with a space before it, the first stock
\* pattern "m71097".
TextBoth ==
    [vin |-> <<Assigned(<<" ">> \o VinB), 4>>,
     stock |-> <<<<Assigned(<<"m", "7", "1", "0", "9", "7">>), 6>>, Unset>>]

\* The id pattern captures 16 characters; the second stock pattern matches.
TextBadVin ==
    [vin |-> <<Assigned(Base16), 4>>,
     stock |-> <<Unset, <<Assigned(<<" ", "M", "7", "1", "0", "9", "7">>), 6>>>>]

\* The pages of the model.  BeautifulSoup(html, "lxml") puts every tag below
\* <html><body>.
Trees ==
  LET Tag(name, parent, phrase, text) ==
          [name |-> name, parent |-> parent, phrase |-> phrase, text |-> text]
      Page(tags) ==
          <<Tag("html", 0, FALSE, TextNone), Tag("body", 1, FALSE, TextNone)>>
              \o tags
  IN{\* no section: a paragraph without ids, with both, with a short id
     Page(<<Tag("p", 2, FALSE, TextNone)>>),
     Page(<<Tag("p", 2, FALSE, TextBoth)>>),
     Page(<<Tag("p", 2, FALSE, TextBadVin)>>),
     \* no section: both stock patterns match, the second one first in the text
     Page(<<Tag("p", 2, FALSE,
                [vin |-> Unset,
                 stock |-> <<<<Assigned(<<"a", "1">>), 8>>,
                             <<Assigned(<<"b", "2">>), 2>>>>])>>),
     \* no section: the first stock pattern matches without its group
     Page(<<Tag("p", 2, FALSE,
                [vin |-> <<Assigned(VinB), 4>>,
                 stock |-> <<<<Unset, 6>>, Unset>>])>>),
     \* no section: the id pattern matches without its group
     Page(<<Tag("p", 2, FALSE,
                [vin |-> <<Unset, 4>>,
                 stock |-> <<<<Assigned(<<"M", "1">>), 6>>, Unset>>])>>),
     \* <main><section><h3>phrase</h3></section></main><aside><p>ids: the
     \* section is <main>, the ids are outside it
     Page(<<Tag("main", 2, FALSE, TextNone), Tag("section", 3, FALSE, TextNone),
            Tag("h3", 4, TRUE, TextNone), Tag("aside", 2, FALSE, TextNone),
            Tag("p", 6, FALSE, TextBoth)>>),
     \* <aside><p>other ids</p></aside><main><section><h3>phrase</h3><p>ids:
     \* the section is <main>, the page's first ids are outside it
     Page(<<Tag("aside", 2, FALSE, TextNone),
            Tag("p", 3, FALSE,
                [vin |-> <<Assigned(VinA), 1>>,
                 stock |-> <<Unset, <<Assigned(<<"Z", "9">>), 2>>>>]),
            Tag("main", 2, FALSE, TextNone), Tag("section", 5, FALSE, TextNone),
            Tag("h3", 6, TRUE, TextNone), Tag("p", 6, FALSE, TextBoth)>>),
     \* <div><h3>phrase</h3></div><footer><p>id, blank stock code: the first
     \* tag found is the <div>, the section is <html>
     Page(<<Tag("div", 2, FALSE, TextNone), Tag("h3", 3, TRUE, TextNone),
            Tag("footer", 2, FALSE, TextNone),
            Tag("p", 5, FALSE,
                [vin |-> <<Assigned(VinB), 4>>,
                 stock |-> <<<<Assigned(<<" ">>), 6>>, Unset>>])>>)
    }

\* [tree, section, page] of the pages.
DocTexts == {SoupTexts(tree) : tree \in Trees}

Docs ==
    {[blocks |-> b, tree |-> t.tree, section |-> t.section, page |-> t.page] :
        b \in BlockSeqs, t \in DocTexts}

----------------------------------------------------------------------------
\* main.py, steps 2 and 3: the scrape loop and the export.

\* Variant: the path is left out of the URL.
FullUrl_DomainOnly(domain, page_path) == <<"https://", domain>>

\* f"https://{domain}{row['page_path']}"
FullUrl(domain, page_path) == <<"https://", domain>> \o page_path

\* Python "x or ''" on an optional atomic string.
OrEmpty(x) == IF x = None \/ x = "" THEN "" ELSE x

\* Python "x or ''" on an optional text.
OrEmptyText(x) == IF x = Unset THEN <<>> ELSE x[1]

\* Python truthiness of a text field of a record.
Truthy(x) == x # <<>>

\* The documents the pages of the scrape loop are drawn from: those with at
\* most one structured-data block (more blocks give no further result).
LoopDocs ==
    {[blocks |-> b, tree |-> t.tree, section |-> t.section, page |-> t.page] :
        b \in {<<>>} \cup {<<block>> : block \in BlockPool}, t \in DocTexts}

\* How a call of scrape_page can end for a page of the model: [raised,
\* result], for every way _fetch_html ends and every document.
ScrapeResultPool ==
    {[raised |-> o.raised, result |-> o.result] :
        o \in {ScrapePage(FullUrl(d, p), f, doc) :
                  d \in Domains, p \in {P2024, P2020, POutside, PSold},
                  f \in FetchResults, doc \in LoopDocs}}

\* The same for the page at target.
ScrapePageResults(target) ==
    {o \in ScrapeResultPool : o.result.full_url = target}

\* csv_exporter.records_to_dicts: zip the two lists into flat records.
RecordsToDicts(ga4_rows, results, domain) ==
    [i \in 1..Min(Len(ga4_rows), Len(results)) |->
        [page_path |-> ga4_rows[i].page_path,
         full_url |-> IF results[i].full_url = <<>>
                      THEN FullUrl(domain, ga4_rows[i].page_path)
                      ELSE results[i].full_url,
         page_views |-> ga4_rows[i].page_views,
         stock_number |-> OrEmptyText(results[i].stock_number),
         vin_number |-> OrEmptyText(results[i].vin_number),
         scrape_status |-> OrEmpty(results[i].scrape_status),
         error_message |-> OrEmpty(results[i].error_message)]]

\* Variant: a record with a vehicle id is kept.
HasBothIds_VinOnly(r) == Truthy(r.vin_number)

\* main.py:236: keep the records that have both identifiers.
HasBothIds(r) == Truthy(r.stock_number) /\ Truthy(r.vin_number)

ExportRecords(ga4_rows, results, domain) ==
    SelectSeq(RecordsToDicts(ga4_rows, results, domain), HasBothIds)

\* main.py:180-207: get_underexposed_pages has returned.  An empty list ends
\* the run with status 0; test mode keeps the first test_limit pages.  The
\* locals of get_underexposed_pages are gone after the return.
MainReceive(test_mode, test_limit) ==
    LET pages == IF test_mode /\ Len(underexposed) > test_limit
                 THEN Take(underexposed, test_limit)
                 ELSE underexposed
    IN  /\ pc = "returned"
        /\ IF underexposed = <<>>
           THEN /\ pc' = "exit"
                /\ exit_code' = 0
                /\ underexposed_pages' = Assigned(underexposed)
           ELSE /\ pc' = "scrape"
                /\ exit_code' = exit_code
                /\ underexposed_pages' = Assigned(pages)
        /\ offset' = 0
        /\ underexposed' = <<>>
        /\ total_seen' = 0
        /\ filtered_count' = 0
        /\ total_available' = 0
        /\ received' = <<>>
        /\ requests' = 0
        /\ fullBatches' = TRUE
        /\ totalsMonotone' = TRUE
        /\ UNCHANGED <<cfg, server, batchFailed, scrape_results, delays, csv, fetchVars, scrapeVars, vinVars>>

\* Variant: the run sleeps after every page.
DelayAfter_EveryPage(i, n) == TRUE

\* main.py:231-232: "if i < len(underexposed_pages): time.sleep(delay)".
DelayAfter(i, n) == i < n

\* main.py:213-237: one iteration of the scrape loop, with the delay after
\* every page but the last; after the last page the records are merged,
\* filtered and written (write_csv re-raises OSError, which ends the run).
\* Nothing around the call of scrape_page catches an exception: one that
\* leaves scrape_page ends the run with a traceback, status 1.
ScrapeNext(out, written) ==
    LET i == Len(scrape_results) + 1
        results == Append(scrape_results, out.result)
        pages == underexposed_pages[1]
    IN  /\ pc = "scrape"
        /\ i <= Len(pages)
        /\ out \in ScrapePageResults(FullUrl(cfg.domain, pages[i].page_path))
        /\ IF out.raised
           THEN /\ pc' = "exit"
                /\ exit_code' = 1
                /\ UNCHANGED <<scrape_results, delays, csv>>
           ELSE /\ scrape_results' = results
                /\ delays' = IF DelayAfter(i, Len(pages)) THEN delays + 1
                              ELSE delays
                /\ IF i < Len(pages)
                   THEN /\ pc' = "scrape"
                        /\ UNCHANGED <<csv, exit_code>>
                   ELSE /\ IF written
                           THEN /\ csv' = Assigned(ExportRecords(pages, results,
                                                                 cfg.domain))
                                /\ pc' = "done"
                                /\ exit_code' = 0
                           ELSE /\ csv' = csv
                                /\ pc' = "exit"
                                /\ exit_code' = 1
        /\ UNCHANGED <<cfg, server, ga4Vars, underexposed_pages, fetchVars,
                       scrapeVars, vinVars>>

TestLimits == {1, 5}

Next ==
    \/ BuildClient
    \/ BuildClientFail
    \/ \E rows \in Batches, total \in 0..MaxTotal : FetchBatch(rows, total)
    \/ FetchBatchFails
    \/ \E test_mode \in BOOLEAN, test_limit \in TestLimits :
           MainReceive(test_mode, test_limit)
    \/ \E out \in ScrapeResultPool, written \in BOOLEAN :
           ScrapeNext(out, written)

----------------------------------------------------------------------------
\* scraper.py: InventoryScraper._append_utm
\*
\* A URL is a token sequence: "?", "&", "=" and "#" are tokens, every other
\* token is a run of text without them, percent-encoded as it stands in the
\* URL.  A decoded key or value is the sequence of its decoded tokens.

\* Position of the first tok in s, 0 when there is none.
IndexOf(s, tok) ==
    IF \E i \in DOMAIN s : s[i] = tok
    THEN CHOOSE i \in DOMAIN s : s[i] = tok /\ \A j \in 1..(i - 1) : s[j] # tok
    ELSE 0

\* s from position i on.
From(s, i) == SubSeq(s, i, Len(s))

\* urllib.parse.urlparse, as far as _append_utm uses it: the fragment starts
\* at the first "#", the query at the first "?" before it.
UrlParse(u) ==
    LET h == IndexOf(u, "#")
        head == IF h = 0 THEN u ELSE SubSeq(u, 1, h - 1)
        q == IndexOf(head, "?")
    IN  [base |-> IF q = 0 THEN head ELSE SubSeq(head, 1, q - 1),
         query |-> IF q = 0 THEN <<>> ELSE From(head, q + 1),
         fragment |-> IF h = 0 THEN <<>> ELSE From(u, h + 1)]

\* urllib.parse.urlunparse: an empty query or fragment leaves no "?" or "#".
UrlUnparse(parsed) ==
    parsed.base
    \o (IF parsed.query = <<>> THEN <<>> ELSE <<"?">> \o parsed.query)
    \o (IF parsed.fragment = <<>> THEN <<>> ELSE <<"#">> \o parsed.fragment)

\* str.split(sep): the fields between the separators.
RECURSIVE SplitOn(_, _)
SplitOn(s, sep) ==
    LET i == IndexOf(s, sep)
    IN  IF i = 0 THEN <<s>>
        ELSE <<SubSeq(s, 1, i - 1)>> \o SplitOn(From(s, i + 1), sep)

\* urllib.parse.unquote_plus on one token: "+" and %20 are a space, %3D is
\* "=", and bytes that are not UTF-8 (%e9) decode to U+FFFD
\* (errors="replace").
UnquoteTok(t) ==
    CASE t = "x%20y" -> "x y"
      [] t = "x+y" -> "x y"
      [] t = "%3D" -> "="
      [] t = "%e9" -> "U+FFFD"
      [] t = "%EF%BF%BD" -> "U+FFFD"
      [] OTHER -> t

Unquote(s) == [i \in DOMAIN s |-> UnquoteTok(s[i])]

\* urllib.parse.quote_plus on one decoded token.
QuotePlusTok(t) ==
    CASE t = "x y" -> "x+y"
      [] t = "=" -> "%3D"
      [] t = "U+FFFD" -> "%EF%BF%BD"
      [] OTHER -> t

QuotePlus(s) == [i \in DOMAIN s |-> QuotePlusTok(s[i])]

\* dict[k] = vals: an existing key keeps its place, a new one goes last.
DictSet(d, k, vals) ==
    IF \E i \in DOMAIN d : d[i].key = k
    THEN [i \in DOMAIN d |-> IF d[i].key = k THEN [key |-> k, vals |-> vals]
                             ELSE d[i]]
    ELSE Append(d, [key |-> k, vals |-> vals])

\* dict.get(k, [])
DictGet(d, k) ==
    IF \E i \in DOMAIN d : d[i].key = k
    THEN d[CHOOSE i \in DOMAIN d : d[i].key = k].vals
    ELSE <<>>

\* parse_qsl over the fields: an empty field is skipped, a field is split at
\* its first "=", and a field without "=" has a blank value
\* (keep_blank_values=True); parse_qs collects the values of a key in a list.
RECURSIVE ParseFields(_, _)
ParseFields(fields, d) ==
    IF fields = <<>> THEN d
    ELSE LET f == Head(fields)
             e == IndexOf(f, "=")
             name == Unquote(IF e = 0 THEN f ELSE SubSeq(f, 1, e - 1))
             val == Unquote(IF e = 0 THEN <<>> ELSE From(f, e + 1))
         IN  IF f = <<>> THEN ParseFields(Tail(fields), d)
             ELSE ParseFields(Tail(fields),
                              DictSet(d, name, Append(DictGet(d, name), val)))

\* urllib.parse.parse_qs(query, keep_blank_values=True)
ParseQs(query) ==
    IF query = <<>> THEN <<>> ELSE ParseFields(SplitOn(query, "&"), <<>>)

\* The pairs urlencode(..., doseq=True) writes: one per value, in dict order.
RECURSIVE EncodePairs(_, _)
EncodePairs(k, vals) ==
    IF vals = <<>> THEN <<>>
    ELSE <<QuotePlus(k) \o <<"=">> \o QuotePlus(Head(vals))>>
         \o EncodePairs(k, Tail(vals))

RECURSIVE AllPairs(_)
AllPairs(d) ==
    IF d = <<>> THEN <<>>
    ELSE EncodePairs(Head(d).key, Head(d).vals) \o AllPairs(Tail(d))

\* "&".join(pairs)
RECURSIVE JoinAmp(_)
JoinAmp(pairs) ==
    IF pairs = <<>> THEN <<>>
    ELSE IF Len(pairs) = 1 THEN Head(pairs)
    ELSE Head(pairs) \o <<"&">> \o JoinAmp(Tail(pairs))

\* urllib.parse.urlencode(existing, doseq=True)
UrlEncode(d) == JoinAmp(AllPairs(d))

\* Variant: a configured parameter is added to the values its key already has.
UtmSet_KeepOld(d, k, v) == DictSet(d, <<k>>, Append(DictGet(d, <<k>>), <<v>>))

\* existing.update({k: [v]}) for one configured parameter.
UtmSet(d, k, v) == DictSet(d, <<k>>, <<<<v>>>>)

\* _append_utm: the parameters configured non-empty, utm_source first.
AppendUtm(u, target) ==
    LET parsed == UrlParse(target)
        existing == ParseQs(parsed.query)
        withSource == IF u.utm_source # ""
                      THEN UtmSet(existing, "utm_source", u.utm_source)
                      ELSE existing
        updated == IF u.utm_medium # ""
                   THEN UtmSet(withSource, "utm_medium", u.utm_medium)
                   ELSE withSource
    IN  IF u.utm_source = "" /\ u.utm_medium = "" THEN target
        ELSE UrlUnparse([parsed EXCEPT !.query = UrlEncode(updated)])

----------------------------------------------------------------------------
\* scraper.py: InventoryScraper._fetch_html

\* Responses of self._session.get(...) as the code distinguishes them:
\* a 2xx body, status 404, another error status (raise_for_status raises
\* HTTPError), or a transport failure raised by requests.
FailureKinds == {"http_500", "http_403", "timeout", "connection_error"}

\* An exception raised inside the try block that is neither PageNotFoundError
\* nor a RequestException; neither except clause of the loop matches it.
OtherErrors == {"other_error"}

GetOutcomes == {"ok", "404"} \cup FailureKinds \cup OtherErrors

\* Variant: no status is singled out as "not found".
NotFound_Never(outcome) == FALSE

\* if response.status_code == 404
NotFound(outcome) == outcome = "404"

\* Variant: the first wait is four seconds.
BackoffWait_FromFour(k) == Pow2(k + 2)

\* wait = 2 ** attempt
BackoffWait(k) == Pow2(k)

\* Variant: the sleep also follows the last attempt.
SleepsAfter_Every(k, n) == k < n

\* if attempt < self._max_retries - 1: time.sleep(wait)
SleepsAfter(k, n) == k < n - 1

\* Lines 123-129: entry of _fetch_html; range(max_retries) is empty for
\* max_retries <= 0 and the function raises at once (line 156).
FetchCall ==
    /\ fpc = "call"
    /\ fetch_url' = AppendUtm(utm, url)
    /\ attempt' = 0
    /\ last_exc' = None
    /\ fpc' = IF max_retries <= 0 THEN "transport_error" ELSE "loop"
    /\ UNCHANGED <<cfg, server, pc, ga4Vars, mainVars, max_retries, outcomes, waits,
                   utm, url, scrapeVars, vinVars>>

\* One iteration of "for attempt in range(self._max_retries)".
FetchAttempt(outcome) ==
    /\ fpc = "loop"
    /\ attempt < max_retries
    /\ outcomes' = Append(outcomes, outcome)
    /\ CASE outcome = "ok" ->
              \* return response.text
              /\ fpc' = "returned"
              /\ UNCHANGED <<attempt, last_exc, waits>>
         [] outcome # "ok" /\ NotFound(outcome) ->
              \* raise PageNotFoundError; "except PageNotFoundError: raise"
              /\ fpc' = "not_found"
              /\ UNCHANGED <<attempt, last_exc, waits>>
         [] outcome \in OtherErrors ->
              \* no except clause matches: the exception leaves _fetch_html
              /\ fpc' = "raised"
              /\ UNCHANGED <<attempt, last_exc, waits>>
         [] OTHER ->
              \* raise_for_status() or the transport raised:
              \* except requests.exceptions.RequestException
              /\ last_exc' = outcome
              /\ waits' = IF SleepsAfter(attempt, max_retries)
                          THEN Append(waits, BackoffWait(attempt))
                          ELSE waits
              /\ IF attempt + 1 < max_retries
                 THEN /\ attempt' = attempt + 1
                      /\ fpc' = "loop"
                 ELSE \* range exhausted: raise RequestException from last_exc
                      /\ attempt' = attempt
                      /\ fpc' = "transport_error"
    /\ UNCHANGED <<cfg, server, pc, ga4Vars, mainVars, max_retries, utm, url,
                   fetch_url, scrapeVars, vinVars>>

\* A scraper constructed with some max_retries, _fetch_html about to be called.
InitFetch ==
    /\ cfg = CHOOSE c \in Configs : TRUE
    /\ server = [rows |-> {}, served |-> 0]
    /\ pc = "idle"
    /\ GA4LocalsInit
    /\ MainInit
    /\ max_retries \in 0..MaxRetries
    /\ fpc = "call"
    /\ attempt = 0
    /\ last_exc = None
    /\ outcomes = <<>>
    /\ waits = <<>>
    /\ utm = [utm_source |-> "ga4", utm_medium |-> "referral"]
    /\ url = FullUrl("dealer.example", P2024)
    /\ fetch_url = <<>>
    /\ ScrapeIdle
    /\ VinIdle

FetchNext ==
    \/ FetchCall
    \/ \E outcome \in GetOutcomes : FetchAttempt(outcome)

SpecFetch == InitFetch /\ [][FetchNext]_vars /\ WF_vars(FetchNext)

\* scrape_page, step by step: the call, the steps of _fetch_html, and the
\* rest of the function once _fetch_html has ended.
ScrapeCall ==
    /\ spc = "call"
    /\ result' = Assigned(ScrapeResult(url))
    /\ spc' = "fetch"
    /\ fpc' = "call"
    /\ UNCHANGED <<cfg, server, pc, ga4Vars, mainVars, max_retries, attempt,
                   last_exc, outcomes, waits, utm, url, fetch_url, html,
                   consulted, vinVars>>

ScrapeFetched ==
    /\ spc = "fetch"
    /\ fpc \in FetchResults
    /\ \E o \in {ScrapePage(url, fpc, html[1])} :
           /\ result' = Assigned(o.result)
           /\ consulted' = o.calls
           /\ spc' = IF o.raised THEN "raised" ELSE "returned"
    /\ UNCHANGED <<cfg, server, pc, ga4Vars, mainVars, fetchVars, html,
                   vinVars>>

\* A scraper about to scrape a page for which the server holds some document.
InitScrape ==
    /\ cfg = CHOOSE c \in Configs : TRUE
    /\ server = [rows |-> {}, served |-> 0]
    /\ pc = "idle"
    /\ GA4LocalsInit
    /\ MainInit
    /\ max_retries \in {0, 1}
    /\ fpc = "idle"
    /\ attempt = 0
    /\ last_exc = None
    /\ outcomes = <<>>
    /\ waits = <<>>
    /\ utm = [utm_source |-> "ga4", utm_medium |-> "referral"]
    /\ url = FullUrl("dealer.example", P2024)
    /\ fetch_url = <<>>
    /\ spc = "call"
    /\ html \in {Assigned(doc) : doc \in Docs}
    /\ result = Unset
    /\ consulted = <<>>
    /\ VinIdle

ScrapePageNext ==
    \/ ScrapeCall
    \/ FetchCall
    \/ \E outcome \in GetOutcomes : FetchAttempt(outcome)
    \/ ScrapeFetched

SpecScrape == InitScrape /\ [][ScrapePageNext]_vars /\ WF_vars(ScrapePageNext)

\* _append_utm on its own: one call of _fetch_html for each URL and each
\* tracking configuration.
QueryFields ==
    {<<"a", "=", "1">>, <<"a", "=", "2">>, <<"utm_source", "=", "old">>,
     <<"utm_medium", "=", "x%20y">>, <<"b">>, <<>>, <<"c", "=", "%e9">>,
     <<"d", "=", "1", "=", "2">>}

Queries ==
    {<<>>} \cup {<<"?">> \o f : f \in QueryFields}
           \cup {<<"?">> \o f \o <<"&">> \o g : f, g \in QueryFields}

UrlPool ==
    {FullUrl(d, P2024) \o q \o frag :
        d \in Domains, q \in Queries, frag \in {<<>>, <<"#", "top">>}}

UtmConfigs == [utm_source : {"", "ga4"}, utm_medium : {"", "referral"}]

InitUtm ==
    /\ cfg = CHOOSE c \in Configs : TRUE
    /\ server = [rows |-> {}, served |-> 0]
    /\ pc = "idle"
    /\ GA4LocalsInit
    /\ MainInit
    /\ max_retries = 1
    /\ fpc = "call"
    /\ attempt = 0
    /\ last_exc = None
    /\ outcomes = <<>>
    /\ waits = <<>>
    /\ utm \in UtmConfigs
    /\ url \in UrlPool
    /\ fetch_url = <<>>
    /\ ScrapeIdle
    /\ VinIdle

SpecUtm == InitUtm /\ [][FetchNext]_vars /\ WF_vars(FetchNext)

\* _is_valid_vin on its own.
IsValidVinCall ==
    /\ valid = Unset
    /\ value # <<>>
    /\ valid' = Assigned(IsValidVin(value))
    /\ UNCHANGED <<cfg, server, pc, ga4Vars, mainVars, fetchVars, scrapeVars, value>>

InitVin ==
    /\ cfg = CHOOSE c \in Configs : TRUE
    /\ server = [rows |-> {}, served |-> 0]
    /\ pc = "idle"
    /\ GA4LocalsInit
    /\ MainInit
    /\ FetchIdle
    /\ ScrapeIdle
    /\ value \in VinInputs
    /\ valid = Unset

SpecVin == InitVin /\ [][IsValidVinCall]_vars /\ WF_vars(IsValidVinCall)

\* The pagination against a server that serves as many rows as the largest
\* total it reports, so that the session is ended by the loop's own tests.
PagingPool == {ReportRow(P2024, "1"), RowBadMetric}

PagingConfigs ==
    {c \in Configs : /\ c.pageview_threshold = 2
                     /\ c.page_path_pattern = <<>>
                     /\ c.page_path_exclude_pattern = <<>>}

InitPaging ==
    /\ cfg \in PagingConfigs
    /\ server = [rows |-> PagingPool, served |-> MaxTotal]
    /\ pc = "build"
    /\ GA4LocalsInit
    /\ MainInit
    /\ FetchIdle
    /\ ScrapeIdle
    /\ VinIdle

SpecPaging == InitPaging /\ [][Next]_vars /\ WF_vars(Next)

\* The pagination against a server whose result and total do not change
\* during the session: a request at an offset is answered with the rows from
\* that offset on, at most PageSize of them and at least one while there
\* are rows left, and with the length of the result as the total.
InitStable ==
    /\ cfg \in PagingConfigs
    /\ server \in {[rows |-> RowPool, served |-> Len(r), result |-> r] :
                     r \in UNION {[1..n -> RowPool] : n \in 0..MaxTotal}}
    /\ pc = "fetch"
    /\ GA4LocalsInit
    /\ MainInit
    /\ FetchIdle
    /\ ScrapeIdle
    /\ VinIdle

StableBatch ==
    \E k \in 0..PageSize :
        /\ offset + k <= Len(server.result)
        /\ k = 0 => offset >= Len(server.result)
        /\ FetchBatch(SubSeq(server.result, offset + 1, offset + k),
                      Len(server.result))

SpecStable == InitStable /\ [][StableBatch]_vars /\ WF_vars(StableBatch)

\* The single thread always takes its next step: every request returns or
\* raises within the request timeout.
Spec == Init /\ [][Next]_vars /\ WF_vars(Next)

----------------------------------------------------------------------------
\* Properties of get_underexposed_pages.  They are stated on the state in
\* which the function has just returned (pc = "returned"), against the rows
\* the server sent (received), with definitions of their own.

Returned == pc = "returned"

\* A row that carries a path and a numeric count.
WellFormed(row) ==
    /\ row.dimension_values # <<>>
    /\ row.metric_values # <<>>
    /\ row.metric_values[1] \in {"0", "1", "2", "3", "4", "5", "6", "7", "8", "9"}

PathOf(row) == row.dimension_values[1]

ViewsOf(row) ==
    CHOOSE n \in 0..9 :
        <<"0", "1", "2", "3", "4", "5", "6", "7", "8", "9">>[n + 1]
            = row.metric_values[1]

StartsWith(path, pat) ==
    Len(pat) <= Len(path) /\ SubSeq(path, 1, Len(pat)) = pat

Contains(path, pat) ==
    \E i \in 0..(Len(path) - Len(pat)) : SubSeq(path, i + 1, i + Len(pat)) = pat

\* The row is one the contract retains under configuration c.
Wanted(c, row) ==
    /\ WellFormed(row)
    /\ c.page_path_pattern = <<>> \/ StartsWith(PathOf(row), c.page_path_pattern)
    /\ c.page_path_exclude_pattern = <<>>
       \/ ~Contains(PathOf(row), c.page_path_exclude_pattern)
    /\ ViewsOf(row) < c.pageview_threshold

WantedRow(row) == Wanted(cfg, row)

\* The retained set in fetch order, as entries.
EntryOf(row) == [page_path |-> PathOf(row), page_views |-> ViewsOf(row)]

FullRetained(rows) ==
    LET kept == SelectSeq(rows, WantedRow)
    IN  [i \in 1..Len(kept) |-> EntryOf(kept[i])]

\* Position of entry i of s in the order "newest year first, fetch order
\* among equal years".
RecencyRank(s, i) ==
    Cardinality({j \in DOMAIN s :
        \/ SlugYear(s[j].page_path) > SlugYear(s[i].page_path)
        \/ SlugYear(s[j].page_path) = SlugYear(s[i].page_path) /\ j < i}) + 1

\* C1: every entry of the returned list has page_views strictly below the
\* configured threshold; an entry with page_views equal to it is never returned.
C1_BelowThreshold ==
    Returned =>
        \A i \in DOMAIN underexposed :
            underexposed[i].page_views < cfg.pageview_threshold

\* C1 witness: the function returned a non-empty list after the server sent a
\* row, passing both patterns, whose count equals the threshold.
C1_Witness ==
    /\ Returned
    /\ underexposed # <<>>
    /\ \E k \in DOMAIN received :
          /\ WellFormed(received[k])
          /\ ViewsOf(received[k]) = cfg.pageview_threshold
          /\ StartsWith(PathOf(received[k]), cfg.page_path_pattern)
          /\ cfg.page_path_exclude_pattern = <<>>

\* C2: no returned entry has a path that fails the configured inclusion
\* pattern at its start or matches the configured exclusion pattern anywhere,
\* and a pattern that is not configured drops no row: the list has as many
\* entries as rows pass the configured patterns and the threshold, up to the cap.
C2_PatternsRespected ==
    Returned =>
        /\ \A i \in DOMAIN underexposed :
              /\ cfg.page_path_pattern # <<>> =>
                     StartsWith(underexposed[i].page_path, cfg.page_path_pattern)
              /\ cfg.page_path_exclude_pattern # <<>> =>
                     ~Contains(underexposed[i].page_path,
                               cfg.page_path_exclude_pattern)
        /\ Len(underexposed) = Min(cfg.max_results, Len(FullRetained(received)))

\* C2 witness: both patterns are configured, and the server sent a path
\* holding the inclusion text away from its start and a path holding the
\* exclusion text, counts below the threshold; both rows were filtered out.
C2_Witness ==
    /\ Returned
    /\ filtered_count = 2
    /\ underexposed = <<>>
    /\ cfg.page_path_pattern # <<>>
    /\ cfg.page_path_exclude_pattern # <<>>
    /\ \E k \in DOMAIN received :
          /\ WellFormed(received[k])
          /\ Contains(PathOf(received[k]), cfg.page_path_pattern)
          /\ ~StartsWith(PathOf(received[k]), cfg.page_path_pattern)
    /\ \E k \in DOMAIN received :
          /\ WellFormed(received[k])
          /\ StartsWith(PathOf(received[k]), cfg.page_path_pattern)
          /\ Contains(PathOf(received[k]), cfg.page_path_exclude_pattern)
          /\ ViewsOf(received[k]) < cfg.pageview_threshold

\* C3: the returned list never has more entries than max_results, and it is
\* exactly the first max_results entries of the full retained set of all
\* batches sorted by recency: filter and threshold, then sort, then truncate.
C3_CapIsSortedPrefix ==
    Returned =>
        LET full == FullRetained(received)
        IN  /\ Len(underexposed) <= cfg.max_results
            /\ Len(underexposed) = Min(cfg.max_results, Len(full))
            /\ \A i \in DOMAIN full :
                  RecencyRank(full, i) <= cfg.max_results =>
                      underexposed[RecencyRank(full, i)] = full[i]

\* C3 witness: the retained set was larger than the cap, and the entries kept
\* are not the ones that came first in fetch order.
C3_Witness ==
    /\ Returned
    /\ Len(FullRetained(received)) > cfg.max_results
    /\ underexposed # Take(FullRetained(received), cfg.max_results)

\* C4: the returned list is ordered by non-increasing year, the year being
\* the 4-digit number after the /inventory/ marker and 0 without one: an
\* entry without a year never precedes one with a year, whatever the counts.
C4_NewestFirst ==
    /\ SlugYear(P2024) = 2024
    /\ SlugYear(P2020) = 2020
    /\ SlugYear(POutside) = 0
    /\ Returned =>
          \A i, j \in DOMAIN underexposed :
              i < j => SlugYear(underexposed[i].page_path)
                           >= SlugYear(underexposed[j].page_path)

\* C4 witness: a 2024 page with more views is returned ahead of a 2020 page
\* that the server sent first.
C4_Witness ==
    /\ Returned
    /\ Len(underexposed) = 2
    /\ underexposed[1].page_path = P2024
    /\ underexposed[2].page_path = P2020
    /\ underexposed[1].page_views > underexposed[2].page_views
    /\ FullRetained(received)[1].page_path = P2020

\* The server honoured the requested order: counts ascending over the session.
ServedAscending ==
    \A i, j \in DOMAIN received :
        (i < j /\ WellFormed(received[i]) /\ WellFormed(received[j]))
            => ViewsOf(received[i]) <= ViewsOf(received[j])

\* C5: the returned list is sorted ascending by page_views (the docstring of
\* get_underexposed_pages), given a server that sent its rows in that order.
C5_AscendingByViews ==
    (Returned /\ ServedAscending) =>
        \A i, j \in DOMAIN underexposed :
            i < j => underexposed[i].page_views <= underexposed[j].page_views

----------------------------------------------------------------------------
\* Properties of the pagination loop (SpecPaging).

Max0(n) == IF n > 0 THEN n ELSE 0

\* Smallest k with k * b >= a.
CeilDiv(a, b) == CHOOSE k \in 0..a : k * b >= a /\ (k = 0 \/ (k - 1) * b < a)

\* The hypotheses of the bound: every batch but the last held PageSize rows,
\* and the reported total never decreased.  Under them the loop has issued at
\* most ceil(total / PageSize) requests, unless its one request came back empty.
C6_RequestBound ==
    (pc \in {"fetch", "returned"} /\ fullBatches /\ totalsMonotone) =>
        \/ requests <= CeilDiv(total_available, PageSize)
        \/ requests = 1 /\ received = <<>>

\* A request answered with zero rows is the last one.
C6_StopsOnEmptyBatch ==
    [][(pc = "fetch" /\ requests' = requests + 1 /\ ~batchFailed'
            /\ received' = received) => pc' = "returned"]_vars

\* The loop is left: the function returns or raises.
C6_LoopIsLeft == <>(pc \notin {"build", "fetch"})

----------------------------------------------------------------------------
\* Properties of the fetch phase of main and of the row decoding (Spec).

\* C7: once a batch request has failed, on the first batch or a later one,
\* get_underexposed_pages has returned no list, the run has ended with
\* status 1, no page has been scraped and no export has been written.
C7_FailedBatchAbortsRun ==
    batchFailed =>
        /\ pc = "exit"
        /\ exit_code = 1
        /\ underexposed_pages = Unset
        /\ scrape_results = <<>>
        /\ delays = 0
        /\ csv = Unset

\* C7 witness: the second request failed while rows of the first batch were
\* already retained.
C7_Witness ==
    /\ batchFailed
    /\ requests = 2
    /\ underexposed # <<>>
    /\ pc = "exit"

\* What get_underexposed_pages returns when the server sends rows, in one
\* batch.
ReturnedFor(rows) ==
    RankAndCap(cfg, ProcessRows(cfg, rows,
        [underexposed |-> <<>>, total_seen |-> 0, filtered_count |-> 0]).underexposed)

----------------------------------------------------------------------------
\* Properties of _fetch_html (SpecFetch).

\* Every attempt so far failed with a transport or server error other than
\* "not found": a timeout, a connection error, an error status.
AllAttemptsFailed ==
    \A i \in DOMAIN outcomes :
        outcomes[i] \in {"http_500", "http_403", "timeout", "connection_error"}

\* C9: when every attempt fails with a failure other than "not found", at
\* most max_retries requests are made, the k-th sleep (k = 1, 2, ...) lasts
\* 2^(k-1) seconds, every failed attempt but the last one allowed is followed
\* by its sleep, and the run of sleeps ends at 2^(max_retries - 2).
C9_BackoffSchedule ==
    AllAttemptsFailed =>
        /\ Len(outcomes) <= max_retries
        /\ \A k \in DOMAIN waits : waits[k] = 2 ^ (k - 1)
        /\ Len(waits) = IF Len(outcomes) < max_retries THEN Len(outcomes)
                        ELSE Max0(max_retries - 1)
        /\ fpc = "transport_error" =>
              /\ Len(outcomes) = max_retries
              /\ Len(waits) = Max0(max_retries - 1)

\* C9 witness: three attempts failed and the function raised after sleeping
\* 1 and 2 seconds.
C9_Witness ==
    /\ fpc = "transport_error"
    /\ max_retries = 3
    /\ AllAttemptsFailed
    /\ Len(outcomes) = 3
    /\ waits = <<1, 2>>

\* C10: a 404 response is the last request of the call: the function raises
\* the not-found error at once, with no sleep after it (the sleeps made are
\* those of the failed attempts before it); a 404 on the first attempt means
\* exactly one request and no sleep.
C10_NotFoundNotRetried ==
    \A i \in DOMAIN outcomes :
        outcomes[i] = "404" =>
            /\ i = Len(outcomes)
            /\ fpc = "not_found"
            /\ Len(waits) = i - 1

\* C10 witness: the 404 came on the second attempt, after one failure and
\* one sleep.
C10_Witness ==
    /\ fpc = "not_found"
    /\ Len(outcomes) = 2
    /\ outcomes[2] = "404"
    /\ waits = <<1>>

\* C11: the transport error is raised only after max_retries attempts have
\* been made and every one of them has failed, and the error raised wraps the
\* failure of the last attempt (raise ... from last_exc); for every
\* max_retries, the smallest included.
C11_RaisedAfterAllAttemptsFailed ==
    fpc = "transport_error" =>
        /\ Len(outcomes) = max_retries
        /\ AllAttemptsFailed
        /\ outcomes # <<>>
        /\ last_exc = outcomes[Len(outcomes)]

RECURSIVE SumOf(_)
SumOf(s) == IF s = <<>> THEN 0 ELSE Head(s) + SumOf(Tail(s))

\* Seconds slept so far in this call.
TotalWait == SumOf(waits)

\* The call has returned or raised.
FetchEnded == fpc \in {"returned", "not_found", "transport_error", "raised"}

C12_WaitBound == TotalWait <= 2 ^ max_retries - 1

\* C12: for every max_retries and every sequence of attempt outcomes, a call
\* of _fetch_html ends, and the time it has slept between attempts never
\* exceeds 2^max_retries - 1 seconds.
C12_BoundedBackoff == []C12_WaitBound /\ <>FetchEnded

\* C12 witness: three attempts failed, the call slept 1 + 2 seconds and
\* raised.
C12_Witness ==
    /\ fpc = "transport_error"
    /\ max_retries = 3
    /\ TotalWait = 3
    /\ TotalWait < 2 ^ max_retries - 1

----------------------------------------------------------------------------
\* Properties of _is_valid_vin (SpecVin).

\* value without the whitespace around it.
Trimmed(v) ==
    LET inner == {i \in DOMAIN v : v[i] \notin {" ", "\t", "\n"}}
        first == CHOOSE i \in inner : \A j \in inner : i <= j
        last == CHOOSE i \in inner : \A j \in inner : j <= i
    IN  IF inner = {} THEN <<>> ELSE [k \in 1..(last - first + 1) |-> v[first + k - 1]]

\* Digits and the letters A-Z, a-z other than I, O, Q.
ContractAlphabet ==
    {"0", "1", "2", "3", "4", "5", "6", "7", "8", "9",
     "A", "B", "C", "D", "E", "F", "G", "H", "J", "K", "L", "M", "N", "P", "R",
     "S", "T", "U", "V", "W", "X", "Y", "Z",
     "a", "b", "c", "d", "e", "f", "g", "h", "j", "k", "l", "m", "n", "p", "r",
     "s", "t", "u", "v", "w", "x", "y", "z"}

\* C20: _is_valid_vin returns true exactly for the values whose trimmed text
\* has 17 characters, all of them digits or letters other than I, O, Q in
\* either case.
C20_AcceptsExactlyTheAlphabet ==
    valid # Unset =>
        (valid[1] <=> /\ Len(Trimmed(value)) = 17
                      /\ \A i \in DOMAIN Trimmed(value) :
                            Trimmed(value)[i] \in ContractAlphabet)

----------------------------------------------------------------------------
\* Properties of _append_utm (SpecUtm).  The keys and values of a query
\* string are read as parse_qs reads them, decoded.

QueryOf(u) == ParseQs(UrlParse(u).query)

KeysOf(d) == {d[i].key : i \in DOMAIN d}

\* The tracking parameters configured non-empty.
ConfiguredKeys == {k \in {"utm_source", "utm_medium"} : utm[k] # ""}

----------------------------------------------------------------------------
\* Properties of scrape_page (SpecScrape), on the state in which the call has
\* returned its ScrapeResult.

ScrapeReturned == spc = "returned"

\* The document the server holds for the page.
Document == html[1]

\* What each extraction path yields on the document, taken alone.
StructuredYield == ExtractVinFromJsonld(Document.blocks).vin

TextYield == ExtractVinFromText(Document).vin

\* An extractor that is called raises on the document: the structured-data
\* scan meets a block it cannot walk, or a pattern matches without its group.
ParseFault ==
    \/ ExtractVinFromJsonld(Document.blocks).raised
    \/ StructuredYield = Unset /\ ExtractVinFromText(Document).raised
    \/ ExtractStockNumber(Document).raised

C14_StructuredDataFirst ==
    (ScrapeReturned /\ result[1].scrape_status = "success") =>
        /\ StructuredYield # Unset =>
              /\ result[1].vin_number = StructuredYield
              /\ \A i \in DOMAIN consulted : consulted[i] # "text"
        /\ StructuredYield = Unset =>
              /\ \E i \in DOMAIN consulted : consulted[i] = "text"
              /\ result[1].vin_number = TextYield
        /\ result[1].vin_number = Unset
              <=> (StructuredYield = Unset /\ TextYield = Unset)

\* C14 witness: the structured data holds the lower-case id and the visible
\* text another id; the result is the first, upper-cased, and the text
\* extractor was not called.
C14_Witness ==
    /\ ScrapeReturned
    /\ Document.blocks = <<BlockVinLower>>
    /\ TextYield = Assigned(VinB)
    /\ result[1].vin_number = Assigned(VinA)
    /\ consulted = <<"jsonld", "stock">>

\* C16: the way _fetch_html ended fixes the status: not found gives
\* "not_found", with both identifiers absent and a non-empty message;
\* retries exhausted gives "failed"; a body gives "success" unless parsing
\* raised, and then "failed".
C16_StatusFollowsFetch ==
    ScrapeReturned =>
        /\ result[1].scrape_status \in {"success", "not_found", "failed"}
        /\ fpc = "not_found" =>
              /\ result[1].scrape_status = "not_found"
              /\ result[1].vin_number = Unset
              /\ result[1].stock_number = Unset
              /\ result[1].error_message \notin {None, ""}
        /\ fpc = "transport_error" => result[1].scrape_status = "failed"
        /\ fpc = "returned" =>
              result[1].scrape_status = IF ParseFault THEN "failed" ELSE "success"

\* C16 witness: the server answered 404 for a page whose document holds both
\* identifiers.
C16_Witness ==
    /\ ScrapeReturned
    /\ outcomes = <<"404">>
    /\ Document.blocks = <<BlockVinLower>>
    /\ Document.page = TextBoth
    /\ result[1].scrape_status = "not_found"

\* C17: a returned outcome with status "not_found" or "failed" has a
\* non-empty error message, one with status "success" has none.
C17_MessageIffNotSuccess ==
    ScrapeReturned =>
        /\ result[1].scrape_status \in {"not_found", "failed"} =>
              result[1].error_message \notin {None, ""}
        /\ result[1].scrape_status = "success" => result[1].error_message = None

\* C17 witness: a page was fetched and parsed, neither identifier was found,
\* and the outcome is a success without a message.
C17_Witness ==
    /\ ScrapeReturned
    /\ fpc = "returned"
    /\ result[1].scrape_status = "success"
    /\ result[1].vin_number = Unset
    /\ result[1].stock_number = Unset
    /\ result[1].error_message = None

----------------------------------------------------------------------------
\* Properties of the scrape loop of main (Spec).

\* The ranked list the loop walks.
Pages == underexposed_pages[1]

\* The loop was entered.
LoopEntered == underexposed_pages # Unset /\ underexposed_pages[1] # <<>>

\* C15: no fault of a page ends the loop: once the run is over, every page
\* of the list has its outcome.
C15_EveryPageHasItsOutcome ==
    (LoopEntered /\ pc \in {"done", "exit"}) =>
        Len(scrape_results) = Len(Pages)

\* Outcome i is the outcome of page i.
C18_IndexAligned ==
    LoopEntered =>
        /\ Len(scrape_results) <= Len(Pages)
        /\ \A i \in DOMAIN scrape_results :
              scrape_results[i].full_url
                  = <<"https://", cfg.domain>> \o Pages[i].page_path
        /\ pc = "done" => Len(scrape_results) = Len(Pages)

\* The outcomes are recorded one at a time, each after all earlier ones.
C18_OneAtATime ==
    [][\/ scrape_results' = scrape_results
       \/ /\ Len(scrape_results') = Len(scrape_results) + 1
          /\ SubSeq(scrape_results', 1, Len(scrape_results)) = scrape_results]_vars

\* C18: the loop records one outcome per page, in the order of the list:
\* outcome i carries the URL built from the domain and the path of page i,
\* after the loop there are as many outcomes as pages, and the outcome of a
\* page is recorded before the next page is scraped.
C18_OutcomesFollowPages == []C18_IndexAligned /\ C18_OneAtATime

\* C18 witness: two pages were scraped and the export written; the two
\* outcomes carry the URLs of the two pages, in list order.
C18_Witness ==
    /\ pc = "done"
    /\ Len(Pages) = 2
    /\ Len(scrape_results) = 2
    /\ Pages[1].page_path # Pages[2].page_path
    /\ scrape_results[1].full_url # scrape_results[2].full_url
    /\ scrape_results[1].scrape_status = "failed"

----------------------------------------------------------------------------
\* Properties of the extractors, on the outcome scrape_page has returned
\* (SpecScrape).

Succeeded == ScrapeReturned /\ result[1].scrape_status = "success"

\* What the stock patterns find in the text the extractor searches.
StockMatches == SearchText(Document).stock

\* The patterns that match.
Matching == {k \in DOMAIN StockMatches : StockMatches[k] # Unset}

\* C21: the stock code of a successful outcome is the group captured by the
\* first configured pattern that matches the text, trimmed and upper-cased,
\* wherever in the text the patterns match, whatever the group holds and
\* whatever the structured data and the id in the text are; it is absent
\* when no pattern matches.
C21_FirstPatternWins ==
    Succeeded =>
        IF Matching = {} THEN result[1].stock_number = Unset
        ELSE LET first == CHOOSE k \in Matching : \A o \in Matching : k <= o
             IN  result[1].stock_number
                     = Assigned(Upper(Strip(StockMatches[first][1][1])))

\* C21 witness: both patterns match, the second one earlier in the text, and
\* the structured data gave the id; the stock code is that of the first
\* pattern, upper-cased.
C21_Witness ==
    /\ ScrapeReturned
    /\ Document.blocks = <<BlockVinLower>>
    /\ Matching = {1, 2}
    /\ StockMatches[2][2] < StockMatches[1][2]
    /\ result[1].vin_number = Assigned(VinA)
    /\ result[1].stock_number = Assigned(<<"A", "1">>)

\* C22: whatever document was fetched, the outcome is a success.
C22_MissIsNoError ==
    (ScrapeReturned /\ fpc = "returned") => result[1].scrape_status = "success"

\* The candidates of structured-data block b.
CandidatesOf(b) ==
    IF Document.blocks[b].kind = "json"
    THEN Candidates(Document.blocks[b].data).candidates
    ELSE <<>>

\* The value at scan position <<block, candidate, field>>.
ValueAt(p) == JGet(CandidatesOf(p[1])[p[2]], JsonldVinFields[p[3]])

\* The scan positions that hold a non-empty string whose trimmed value
\* passes the validator.
ValidPositions ==
    {p \in UNION {{<<b, c, f>> : c \in DOMAIN CandidatesOf(b),
                                f \in DOMAIN JsonldVinFields} :
                     b \in DOMAIN Document.blocks} :
        /\ CandidatesOf(p[1])[p[2]].t = "dict"
        /\ ValueAt(p).t = "str"
        /\ ValueAt(p).s # <<>>
        /\ IsValidVin(Strip(ValueAt(p).s))}

\* Position p is scanned before position q, or is q.
ScannedBefore(p, q) ==
    \/ p[1] < q[1]
    \/ p[1] = q[1] /\ p[2] < q[2]
    \/ p[1] = q[1] /\ p[2] = q[2] /\ p[3] <= q[3]

\* C25: when some scan position of the structured data holds a valid value,
\* the id of a successful outcome is the value at the first such position
\* in scan order, trimmed and upper-cased, whatever the positions before it
\* hold, and the text is not searched; without such a position the text is
\* searched.
C25_FirstValidInScanOrder ==
    Succeeded =>
        IF ValidPositions = {}
        THEN \E i \in DOMAIN consulted : consulted[i] = "text"
        ELSE LET first == CHOOSE p \in ValidPositions :
                              \A q \in ValidPositions : ScannedBefore(p, q)
             IN  /\ result[1].vin_number
                        = Assigned(Upper(Strip(ValueAt(first).s)))
                 /\ \A i \in DOMAIN consulted : consulted[i] # "text"

\* C25 witness: a block with three invalid values, then a block whose
\* "@graph" holds a string, an object without an id and an object with the
\* id in lower case under the third field; that id is returned upper-cased.
C25_Witness ==
    /\ ScrapeReturned
    /\ Document.blocks = <<BlockInvalid, BlockGraph>>
    /\ ValidPositions = {<<2, 3, 3>>}
    /\ result[1].vin_number = Assigned(VinA)

\* The tags whose strings the text extractors search: those of the located
\* section when there is one, else those of the whole page.
Scope ==
    LET section == FindVehicleIdSection(Document.tree)
    IN  IF section = Unset THEN DOMAIN Document.tree
        ELSE Subtree(Document.tree, section[1])

\* C26: in a successful outcome the stock code is present exactly when a
\* stock pattern matches in a tag of the scope, and is then taken from such
\* a match; when the text is searched for the id, an id found is taken from
\* a match in a tag of the scope, and none is found when the id pattern
\* matches in no tag of the scope.
C26_SameScope ==
    Succeeded =>
        LET tree == Document.tree
            text == \E i \in DOMAIN consulted : consulted[i] = "text"
            group(m) == Assigned(Upper(Strip(m[1][1])))
        IN  /\ result[1].stock_number # Unset
                  <=> \E i \in Scope, k \in 1..2 : tree[i].text.stock[k] # Unset
            /\ result[1].stock_number # Unset =>
                  \E i \in Scope, k \in 1..2 :
                      /\ tree[i].text.stock[k] # Unset
                      /\ result[1].stock_number = group(tree[i].text.stock[k])
            /\ (text /\ result[1].vin_number # Unset) =>
                  \E i \in Scope :
                      /\ tree[i].text.vin # Unset
                      /\ result[1].vin_number = group(tree[i].text.vin)
            /\ (text /\ \A i \in Scope : tree[i].text.vin = Unset) =>
                  result[1].vin_number = Unset

\* C26 witness: the page holds a section, both identifiers stand outside it
\* and nowhere else, there is no structured data; neither is found.
C26_Witness ==
    /\ Succeeded
    /\ Document.blocks = <<>>
    /\ FindVehicleIdSection(Document.tree) # Unset
    /\ Scope # DOMAIN Document.tree
    /\ Document.page = TextBoth
    /\ consulted = <<"jsonld", "text", "stock">>
    /\ result[1].vin_number = Unset
    /\ result[1].stock_number = Unset

\* C28: an outcome with status "not_found" or "failed" has neither
\* identifier, also when parsing failed after the id had been extracted.
C28_NoIdsUnlessSuccess ==
    (ScrapeReturned /\ result[1].scrape_status \in {"not_found", "failed"}) =>
        /\ result[1].vin_number = Unset
        /\ result[1].stock_number = Unset

\* C28 witness: the page was fetched, the text gave the id, and the search
\* for the stock code then raised; the outcome is "failed" without the id.
C28_Witness ==
    /\ ScrapeReturned
    /\ fpc = "returned"
    /\ consulted = <<"jsonld", "text", "stock">>
    /\ TextYield = Assigned(VinB)
    /\ ExtractStockNumber(Document).raised
    /\ result[1].scrape_status = "failed"
    /\ result[1].vin_number = Unset

----------------------------------------------------------------------------
\* Properties of the scrape loop and the export of main (Spec).

\* The run has slept once after each page scraped so far, the last page of
\* the list excepted.
C23_DelayCount ==
    /\ ~LoopEntered => delays = 0
    /\ LoopEntered =>
          delays = IF Len(scrape_results) < Len(Pages)
                   THEN Len(scrape_results)
                   ELSE Len(Pages) - 1

\* A sleep follows the scrape of a page that is not the last.
C23_DelayAfterScrape ==
    [][delays' # delays =>
          /\ delays' = delays + 1
          /\ Len(scrape_results') = Len(scrape_results) + 1
          /\ Len(scrape_results') < Len(Pages)]_vars

\* C23: for a list of n >= 1 pages the run sleeps n - 1 times, once after
\* the scrape of each page but the last, and not after the last.
C23_DelaysBetweenPages == []C23_DelayCount /\ C23_DelayAfterScrape

\* C23 witness: two pages were scraped and the export written after one
\* sleep.
C23_Witness ==
    /\ pc = "done"
    /\ Len(Pages) = 2
    /\ Len(scrape_results) = 2
    /\ delays = 1

\* The outcome holds a non-empty stock code and a non-empty id.
BothFound(outcome) ==
    /\ outcome.stock_number \notin {Unset, Assigned(<<>>)}
    /\ outcome.vin_number \notin {Unset, Assigned(<<>>)}

\* The places in the ranked list of the pairs that have both identifiers.
KeptPlaces == {i \in DOMAIN Pages : BothFound(scrape_results[i])}

\* C24: the export holds one record for each pair that has both
\* identifiers, and no other, in the order of the ranked list; each record
\* carries the page's path and views and the pair's two identifiers, both
\* non-empty.
C24_ExportHasBothIds ==
    csv # Unset =>
        /\ Len(csv[1]) = Cardinality(KeptPlaces)
        /\ \A j \in DOMAIN csv[1] :
              /\ csv[1][j].stock_number # <<>>
              /\ csv[1][j].vin_number # <<>>
              /\ \E i \in KeptPlaces :
                    /\ Cardinality({k \in KeptPlaces : k <= i}) = j
                    /\ csv[1][j].page_path = Pages[i].page_path
                    /\ csv[1][j].page_views = Pages[i].page_views
                    /\ csv[1][j].stock_number = scrape_results[i].stock_number[1]
                    /\ csv[1][j].vin_number = scrape_results[i].vin_number[1]

\* C24 witness: of two pages the first has an id and a blank stock code,
\* the second has both; the export holds the second only.
C24_Witness ==
    /\ pc = "done"
    /\ Len(Pages) = 2
    /\ scrape_results[1].vin_number # Unset
    /\ scrape_results[1].stock_number = Assigned(<<>>)
    /\ BothFound(scrape_results[2])
    /\ Len(csv[1]) = 1
    /\ csv[1][1].page_path = Pages[2].page_path

----------------------------------------------------------------------------
\* Properties of the pagination against a server whose result does not
\* change (SpecStable).

\* C27: every request is made at the offset that is the number of rows
\* received so far, the rows received are those of the result from its
\* start, and when the function returns every row of the result has been
\* received once, in order, and every well-formed one counted once.
C27_EveryRowOnce ==
    /\ offset = Len(received)
    /\ Len(received) <= Len(server.result)
    /\ received = SubSeq(server.result, 1, Len(received))
    /\ Returned =>
          /\ received = server.result
          /\ total_seen
                 = Cardinality({i \in DOMAIN server.result :
                                   WellFormed(server.result[i])})

\* C27 witness: a result of three rows was received in three batches of one
\* row, each shorter than the size asked for.
C27_Witness ==
    /\ Returned
    /\ Len(server.result) = 3
    /\ requests = 3
    /\ ~fullBatches
    /\ received = server.result

====
